---- MODULE Spec2Model ----
(***************************************************************************)
(* CPU-scheduling simulator of src/main.go: FCFSSchedule, the              *)
(* non-preemptive SJFSchedule (PriorityHeap driven) and RRSchedule, each   *)
(* modelled one loop iteration per step over a bounded process set.        *)
(* float64 totals are modelled as integers: every value they hold here is  *)
(* a small integer, which float64 represents exactly.                      *)
(***************************************************************************)
EXTENDS Integers, Sequences, FiniteSets, TLC

\* ---- bounds of the explored inputs ----
MaxProcs == 2
MaxArrival == 2
MaxBurst == 3
MaxPriority == 1
\* the unit-stepping SJFSchedule is followed up to this clock value
MaxUnitClock == 6

\* RRSchedule: timeQuantum := 2
timeQuantum == 2

VARIABLES
    policy,          \* which scheduler function runs: "FCFS", "SJF", "RR", and
                     \* "SJFUnit", the unit-stepping definition of SJFSchedule
    pc,              \* "start": entered, "loop": in the main loop,
                     \* "averages": loop left, "done": returned
    input,           \* the process set as loaded, never written (reference copy)
    backing,         \* the caller's slice: same backing array as `processes`
    processes,       \* the callee's `processes` slice (SJF and RR shrink it)
    i,               \* FCFS loop index (number of processes already taken)
    serviceTime,     \* FCFS clock
    waitingTime,     \* FCFS waitingTime, declared outside the loop
    lastCompletion,  \* FCFS lastCompletion
    currentTime,     \* SJF / RR clock
    totalWait,       \* accumulated waiting total
    totalTurnaround, \* accumulated turnaround total (FCFS/RR `turnaround`)
    schedule,        \* rows emitted (FCFS, SJF)
    gantt,           \* TimeSlices emitted (FCFS, SJF)
    h,               \* SJF ready heap, as the slice container/heap works on
    queue,           \* RR ready queue
    decision,        \* history: ready heap and chosen process of the last SJF pop
    dispatches,      \* history: every RR dispatch (clock interval, remaining, requeue)
    accounted,       \* history: every RR completion accounting
    completed,       \* unit-stepping SJF: completed
    metrics          \* numerators and denominators of the three reported figures

vars == << policy, pc, input, backing, processes, i, serviceTime, waitingTime,
           lastCompletion, currentTime, totalWait, totalTurnaround, schedule,
           gantt, h, queue, decision, dispatches, accounted, completed,
           metrics >>

\* ---- data model ----

\* type Process struct
Process(id, arrival, burst, prio) ==
    [ProcessID |-> id, ArrivalTime |-> arrival, BurstDuration |-> burst, Priority |-> prio]

\* type TimeSlice struct
TimeSlice(pid, start, stop) == [PID |-> pid, Start |-> start, Stop |-> stop]

\* one row of the schedule table, columns as in outputSchedule's header
Row(id, prio, burst, arrival, wait, turn, exit) ==
    [ID |-> id, Priority |-> prio, Burst |-> burst, Arrival |-> arrival,
     Wait |-> wait, Turnaround |-> turn, Exit |-> exit]

\* the priorities explored under a policy: only the PriorityHeap of the
\* non-preemptive SJFSchedule ever compares them, the other functions get the
\* default 0 that loadProcesses leaves in a three-column row
Priorities(pol) == IF pol = "SJF" THEN 0..MaxPriority ELSE {0}

Attr(pol) == [a : 0..MaxArrival, b : 1..MaxBurst, p : Priorities(pol)]

\* what loadProcesses returns: one Process per CSV row, ids labelling rows
LoadProcesses(n, g) == [k \in 1..n |-> Process(k, g[k].a, g[k].b, g[k].p)]

\* the inputs the specification's examples use (id, burst, arrival)
ExampleFCFS == << Process(1, 0, 5, 0), Process(2, 1, 3, 0), Process(3, 2, 1, 0) >>
ExampleRR == << Process(1, 0, 4, 0), Process(2, 0, 2, 0) >>

Examples == {ExampleFCFS, ExampleRR}

Policies == {"FCFS", "SJF", "RR", "SJFUnit"}

NoDecision == [made |-> FALSE, ready |-> << >>, chosen |-> Process(0, 0, 0, 0)]
NoMetrics == [waitNum |-> 0, waitDen |-> 0, turnNum |-> 0, turnDen |-> 0,
              thrNum |-> 0, thrDen |-> 0]

Init ==
    /\ policy \in Policies
    /\ \/ \E n \in 0..MaxProcs : \E g \in [1..n -> Attr(policy)] :
              input = LoadProcesses(n, g)
       \/ input \in Examples
    /\ backing = input
    /\ processes = input
    /\ pc = IF policy = "SJFUnit" THEN "start" ELSE "loop"
    /\ completed = 0
    /\ i = 0
    /\ serviceTime = 0
    /\ waitingTime = 0
    /\ lastCompletion = 0
    /\ currentTime = 0
    /\ totalWait = 0
    /\ totalTurnaround = 0
    /\ schedule = << >>
    /\ gantt = << >>
    /\ h = << >>
    /\ queue = << >>
    /\ decision = NoDecision
    /\ dispatches = << >>
    /\ accounted = << >>
    /\ metrics = NoMetrics

\* ---- FCFSSchedule ----

\* if processes[i].ArrivalTime > 0 { waitingTime = serviceTime - ArrivalTime }
FCFSWaitingTime(p, st, w) == IF p.ArrivalTime > 0 THEN st - p.ArrivalTime ELSE w

\* turnaround := BurstDuration + waitingTime
FCFSTurnaround(p, w) == p.BurstDuration + w

\* completion := BurstDuration + ArrivalTime + waitingTime
FCFSCompletion(p, w) == p.BurstDuration + p.ArrivalTime + w

\* one iteration of `for i := range processes`
FCFSStep ==
    /\ policy = "FCFS" /\ pc = "loop" /\ i < Len(processes)
    /\ LET p == processes[i + 1]
           w == FCFSWaitingTime(p, serviceTime, waitingTime)
           start == w + p.ArrivalTime
           completion == FCFSCompletion(p, w)
       IN /\ waitingTime' = w
          /\ totalWait' = totalWait + w
          \* turnaround += float64(turnaround): the float64 on the left can only be
          \* the accumulator declared before the loop, the int64 converted on the
          \* right only the loop-local value of the line above
          /\ totalTurnaround' = totalTurnaround + FCFSTurnaround(p, w)
          /\ lastCompletion' = completion
          /\ schedule' = Append(schedule,
                 Row(p.ProcessID, p.Priority, p.BurstDuration, p.ArrivalTime,
                     w, FCFSTurnaround(p, w), completion))
          /\ serviceTime' = serviceTime + p.BurstDuration
          /\ gantt' = Append(gantt,
                 TimeSlice(p.ProcessID, start, serviceTime + p.BurstDuration))
          /\ i' = i + 1
    /\ UNCHANGED << completed, policy, pc, input, backing, processes, currentTime,
                    h, queue, decision, dispatches, accounted, metrics >>

\* the range loop is exhausted
FCFSLoopExit ==
    /\ policy = "FCFS" /\ pc = "loop" /\ i = Len(processes)
    /\ pc' = "averages"
    /\ UNCHANGED << completed, policy, input, backing, processes, i, serviceTime, waitingTime,
                    lastCompletion, currentTime, totalWait, totalTurnaround,
                    schedule, gantt, h, queue, decision, dispatches, accounted,
                    metrics >>

\* count, aveWait, aveTurnaround, aveThroughput
FCFSAverages ==
    /\ policy = "FCFS" /\ pc = "averages"
    /\ metrics' = [waitNum |-> totalWait, waitDen |-> Len(processes),
                   turnNum |-> totalTurnaround, turnDen |-> Len(processes),
                   thrNum |-> Len(processes), thrDen |-> lastCompletion]
    /\ pc' = "done"
    /\ UNCHANGED << completed, policy, input, backing, processes, i, serviceTime, waitingTime,
                    lastCompletion, currentTime, totalWait, totalTurnaround,
                    schedule, gantt, h, queue, decision, dispatches, accounted >>

\* ---- slices and the ready heap ----

\* append(processes[:i], processes[i+1:]...) as seen through the callee's slice
RemoveAt(s, k) == [j \in 1..(Len(s) - 1) |-> IF j < k THEN s[j] ELSE s[j + 1]]

\* the same append as seen through the caller's slice header: the elements
\* after k move one slot down inside the shared array, its length stays
RemoveAtBacking(back, k, m) ==
    [j \in 1..Len(back) |-> IF j >= k /\ j < m THEN back[j + 1] ELSE back[j]]

\* PriorityHeap.Less: priority first, burst duration second, arrival third
PriorityLess(a, b) ==
    \/ a.Priority < b.Priority
    \/ a.Priority = b.Priority /\ a.BurstDuration < b.BurstDuration
    \/ a.Priority = b.Priority /\ a.BurstDuration = b.BurstDuration
          /\ a.ArrivalTime < b.ArrivalTime

\* PriorityHeap.Swap
HeapSwap(s, a, b) == [s EXCEPT ![a] = s[b], ![b] = s[a]]

\* container/heap up(), on 1-based positions
RECURSIVE HeapUp(_, _)
HeapUp(s, j) ==
    IF j = 1 THEN s
    ELSE LET par == j \div 2
         IN IF ~PriorityLess(s[j], s[par]) THEN s
            ELSE HeapUp(HeapSwap(s, par, j), par)

\* container/heap down(), on the first n elements, 1-based positions
RECURSIVE HeapDown(_, _, _)
HeapDown(s, k, n) ==
    LET j1 == 2 * k
    IN IF j1 > n THEN s
       ELSE LET j == IF j1 + 1 <= n /\ PriorityLess(s[j1 + 1], s[j1])
                     THEN j1 + 1 ELSE j1
            IN IF ~PriorityLess(s[j], s[k]) THEN s
               ELSE HeapDown(HeapSwap(s, k, j), j, n)

\* h.Push(x) called directly: the element is appended and never sifted up
HeapPushNoSift(s, x) == Append(s, x)

\* heap.Push(h, x)
HeapPush(s, x) == HeapUp(Append(s, x), Len(s) + 1)

\* heap.Pop(h): the slice after Swap(0, n) and down(0, n), last element is the result
HeapPopped(s) == HeapDown(HeapSwap(s, 1, Len(s)), 1, Len(s) - 1)
HeapPopValue(s) == HeapPopped(s)[Len(s)]
HeapPopRest(s) == SubSeq(HeapPopped(s), 1, Len(s) - 1)

\* ---- SJFSchedule (non-preemptive, PriorityHeap) ----

\* an admission test that lets a process in only after its arrival instant
SJFArrivedStrictly(p, t) == p.ArrivalTime < t /\ p.BurstDuration > 0

\* if processes[i].ArrivalTime <= currentTime && processes[i].BurstDuration > 0
SJFArrived(p, t) == p.ArrivalTime <= t /\ p.BurstDuration > 0

\* the admission loop: every arrived process with burst left goes to the heap
RECURSIVE SJFAdmit(_, _, _, _, _)
SJFAdmit(procs, hp, back, k, t) ==
    IF k > Len(procs) THEN [processes |-> procs, h |-> hp, backing |-> back]
    ELSE IF SJFArrived(procs[k], t)
         THEN SJFAdmit(RemoveAt(procs, k), HeapPush(hp, procs[k]),
                       RemoveAtBacking(back, k, Len(procs)), k, t)
         ELSE SJFAdmit(procs, hp, back, k + 1, t)

SJFAdmitted == SJFAdmit(processes, h, backing, 1, currentTime)

\* a loop condition that needs both the heap and the slice to be non-empty
SJFLoopCondBoth == Len(h) > 0 /\ Len(processes) > 0

\* for len(*h) > 0 || len(processes) > 0
SJFLoopCond == Len(h) > 0 \/ Len(processes) > 0

\* burst column of the row: p.BurstDuration + waitTime  // original burst time
SJFRowBurst(p, waitTime) == p.BurstDuration + waitTime

\* waitTime := startTime - p.ArrivalTime
SJFWaitTime(p, startTime) == startTime - p.ArrivalTime

\* one iteration whose heap is non-empty after admission: pop and run to completion
SJFDispatch ==
    /\ policy = "SJF" /\ pc = "loop" /\ SJFLoopCond
    /\ LET adm == SJFAdmitted IN
       /\ Len(adm.h) > 0
       /\ LET p == HeapPopValue(adm.h)
              startTime == currentTime
              stop == currentTime + p.BurstDuration
              waitTime == SJFWaitTime(p, startTime)
              turnaroundTime == stop - p.ArrivalTime
          IN /\ h' = HeapPopRest(adm.h)
             /\ currentTime' = stop
             /\ totalWait' = totalWait + waitTime
             /\ totalTurnaround' = totalTurnaround + turnaroundTime
             /\ schedule' = Append(schedule,
                    Row(p.ProcessID, p.Priority, SJFRowBurst(p, waitTime),
                        p.ArrivalTime, waitTime, turnaroundTime, stop))
             /\ gantt' = Append(gantt, TimeSlice(p.ProcessID, startTime, stop))
             /\ decision' = [made |-> TRUE, ready |-> adm.h, chosen |-> p]
       /\ processes' = adm.processes
       /\ backing' = adm.backing
    /\ UNCHANGED << completed, policy, pc, input, i, serviceTime, waitingTime, lastCompletion,
                    queue, dispatches, accounted, metrics >>

\* one iteration whose heap is empty after admission: currentTime++
SJFIdle ==
    /\ policy = "SJF" /\ pc = "loop" /\ SJFLoopCond
    /\ LET adm == SJFAdmitted IN
       /\ Len(adm.h) = 0
       /\ h' = adm.h
       /\ processes' = adm.processes
       /\ backing' = adm.backing
    /\ currentTime' = currentTime + 1
    /\ UNCHANGED << completed, policy, pc, input, i, serviceTime, waitingTime, lastCompletion,
                    totalWait, totalTurnaround, schedule, gantt, queue, decision,
                    dispatches, accounted, metrics >>

SJFLoopExit ==
    /\ policy = "SJF" /\ pc = "loop" /\ ~SJFLoopCond
    /\ pc' = "averages"
    /\ UNCHANGED << completed, policy, input, backing, processes, i, serviceTime, waitingTime,
                    lastCompletion, currentTime, totalWait, totalTurnaround,
                    schedule, gantt, h, queue, decision, dispatches, accounted,
                    metrics >>

\* avgWait, avgTurnaround, throughput
SJFAverages ==
    /\ policy = "SJF" /\ pc = "averages"
    /\ metrics' = [waitNum |-> totalWait, waitDen |-> Len(schedule),
                   turnNum |-> totalTurnaround, turnDen |-> Len(schedule),
                   thrNum |-> Len(schedule), thrDen |-> currentTime]
    /\ pc' = "done"
    /\ UNCHANGED << completed, policy, input, backing, processes, i, serviceTime, waitingTime,
                    lastCompletion, currentTime, totalWait, totalTurnaround,
                    schedule, gantt, h, queue, decision, dispatches, accounted >>

\* ---- RRSchedule ----

\* the admission loop: every arrived process is appended to the queue
RECURSIVE RRAdmit(_, _, _, _, _)
RRAdmit(procs, q, back, k, t) ==
    IF k > Len(procs) THEN [processes |-> procs, queue |-> q, backing |-> back]
    ELSE IF procs[k].ArrivalTime <= t
         THEN RRAdmit(RemoveAt(procs, k), Append(q, procs[k]),
                      RemoveAtBacking(back, k, Len(procs)), k, t)
         ELSE RRAdmit(procs, q, back, k + 1, t)

RRAdmitted == RRAdmit(processes, queue, backing, 1, currentTime)

\* for len(queue) > 0 || len(processes) > 0
RRLoopCond == Len(queue) > 0 \/ Len(processes) > 0

\* a dispatch that also preempts a process with exactly one quantum left
RRPreemptsAtQuantum(p) == p.BurstDuration >= timeQuantum

\* if p.BurstDuration > int64(timeQuantum)
RRPreempts(p) == p.BurstDuration > timeQuantum

\* totalWait += currentTime - p.ArrivalTime - p.BurstDuration
RRWait(p, now) == now - p.ArrivalTime - p.BurstDuration

\* head of the queue has more than a quantum left: run a quantum, re-enqueue
RRPreempt ==
    /\ policy = "RR" /\ pc = "loop" /\ RRLoopCond
    /\ LET adm == RRAdmitted IN
       /\ Len(adm.queue) > 0
       /\ LET p == Head(adm.queue)
              rest == Tail(adm.queue)
              q == [p EXCEPT !.BurstDuration = @ - timeQuantum]
          IN /\ RRPreempts(p)
             /\ currentTime' = currentTime + timeQuantum
             /\ queue' = Append(rest, q)
             /\ dispatches' = Append(dispatches,
                    [PID |-> p.ProcessID, Start |-> currentTime,
                     Stop |-> currentTime + timeQuantum,
                     remaining |-> p.BurstDuration, completes |-> FALSE])
       /\ processes' = adm.processes
       /\ backing' = adm.backing
    /\ UNCHANGED << completed, policy, pc, input, i, serviceTime, waitingTime, lastCompletion,
                    totalWait, totalTurnaround, schedule, gantt, h, decision,
                    accounted, metrics >>

\* head of the queue has at most a quantum left: run it out and account for it
RRComplete ==
    /\ policy = "RR" /\ pc = "loop" /\ RRLoopCond
    /\ LET adm == RRAdmitted IN
       /\ Len(adm.queue) > 0
       /\ LET p == Head(adm.queue)
              now == currentTime + p.BurstDuration
          IN /\ ~RRPreempts(p)
             /\ currentTime' = now
             /\ queue' = Tail(adm.queue)
             /\ totalTurnaround' = totalTurnaround + (now - p.ArrivalTime)
             /\ totalWait' = totalWait + RRWait(p, now)
             /\ dispatches' = Append(dispatches,
                    [PID |-> p.ProcessID, Start |-> currentTime, Stop |-> now,
                     remaining |-> p.BurstDuration, completes |-> TRUE])
             /\ accounted' = Append(accounted,
                    [PID |-> p.ProcessID, Arrival |-> p.ArrivalTime,
                     Wait |-> RRWait(p, now), Turnaround |-> now - p.ArrivalTime,
                     Exit |-> now])
       /\ processes' = adm.processes
       /\ backing' = adm.backing
    /\ UNCHANGED << completed, policy, pc, input, i, serviceTime, waitingTime, lastCompletion,
                    schedule, gantt, h, decision, metrics >>

\* the queue is empty after admission: currentTime++
RRIdle ==
    /\ policy = "RR" /\ pc = "loop" /\ RRLoopCond
    /\ LET adm == RRAdmitted IN
       /\ Len(adm.queue) = 0
       /\ queue' = adm.queue
       /\ processes' = adm.processes
       /\ backing' = adm.backing
    /\ currentTime' = currentTime + 1
    /\ UNCHANGED << completed, policy, pc, input, i, serviceTime, waitingTime, lastCompletion,
                    totalWait, totalTurnaround, schedule, gantt, h, decision,
                    dispatches, accounted, metrics >>

RRLoopExit ==
    /\ policy = "RR" /\ pc = "loop" /\ ~RRLoopCond
    /\ pc' = "averages"
    /\ UNCHANGED << completed, policy, input, backing, processes, i, serviceTime, waitingTime,
                    lastCompletion, currentTime, totalWait, totalTurnaround,
                    schedule, gantt, h, queue, decision, dispatches, accounted,
                    metrics >>

\* avgTurnaround, avgWait, throughput: all three use len(processes) after the loop
RRAverages ==
    /\ policy = "RR" /\ pc = "averages"
    /\ metrics' = [waitNum |-> totalWait, waitDen |-> Len(processes),
                   turnNum |-> totalTurnaround, turnDen |-> Len(processes),
                   thrNum |-> Len(processes), thrDen |-> currentTime]
    /\ pc' = "done"
    /\ UNCHANGED << completed, policy, input, backing, processes, i, serviceTime, waitingTime,
                    lastCompletion, currentTime, totalWait, totalTurnaround,
                    schedule, gantt, h, queue, decision, dispatches, accounted >>

\* ---- SJFSchedule (unit-stepping definition, IntHeap) ----

\* IntHeap.Less: the shorter remaining burst first
IntLess(a, b) == a.BurstDuration < b.BurstDuration

\* container/heap up() over an IntHeap, on 1-based positions
RECURSIVE IntHeapUp(_, _)
IntHeapUp(s, j) ==
    IF j = 1 THEN s
    ELSE LET par == j \div 2
         IN IF ~IntLess(s[j], s[par]) THEN s
            ELSE IntHeapUp(HeapSwap(s, par, j), par)

\* container/heap down() over an IntHeap, on the first n elements
RECURSIVE IntHeapDown(_, _, _)
IntHeapDown(s, k, n) ==
    LET j1 == 2 * k
    IN IF j1 > n THEN s
       ELSE LET j == IF j1 + 1 <= n /\ IntLess(s[j1 + 1], s[j1])
                     THEN j1 + 1 ELSE j1
            IN IF ~IntLess(s[j], s[k]) THEN s
               ELSE IntHeapDown(HeapSwap(s, k, j), j, n)

\* heap.Push(h, p)
IntHeapPush(s, x) == IntHeapUp(Append(s, x), Len(s) + 1)

\* heap.Pop(h)
IntHeapPopped(s) == IntHeapDown(HeapSwap(s, 1, Len(s)), 1, Len(s) - 1)
IntHeapPopValue(s) == IntHeapPopped(s)[Len(s)]
IntHeapPopRest(s) == SubSeq(IntHeapPopped(s), 1, Len(s) - 1)

\* sort.Slice by ArrivalTime: for slices this short the library sorts by
\* insertion, which keeps equal arrivals in their order
RECURSIVE InsertByArrival(_, _)
InsertByArrival(sorted, p) ==
    IF sorted = << >> THEN << p >>
    ELSE LET last == sorted[Len(sorted)]
         IN IF p.ArrivalTime < last.ArrivalTime
            THEN Append(InsertByArrival(SubSeq(sorted, 1, Len(sorted) - 1), p), last)
            ELSE Append(sorted, p)

RECURSIVE SortByArrival(_)
SortByArrival(s) ==
    IF s = << >> THEN << >>
    ELSE InsertByArrival(SortByArrival(SubSeq(s, 1, Len(s) - 1)), s[Len(s)])

\* for _, p := range processes: every arrived process is pushed, on every pass;
\* the slice keeps all its processes and their full burst
RECURSIVE SJFUnitPushArrived(_, _, _, _)
SJFUnitPushArrived(procs, hp, k, t) ==
    IF k > Len(procs) THEN hp
    ELSE IF procs[k].ArrivalTime <= t /\ procs[k].BurstDuration > 0
         THEN SJFUnitPushArrived(procs, IntHeapPush(hp, procs[k]), k + 1, t)
         ELSE SJFUnitPushArrived(procs, hp, k + 1, t)

SJFUnitPushed == SJFUnitPushArrived(processes, h, 1, currentTime)

\* for completed < len(processes) || h.Len() > 0
SJFUnitLoopCond == completed < Len(processes) \/ Len(h) > 0

\* sort.Slice(processes, ...): in place, so through the caller's slice as well
SJFUnitSort ==
    /\ policy = "SJFUnit" /\ pc = "start"
    /\ processes' = SortByArrival(processes)
    /\ backing' = SortByArrival(processes)
    /\ pc' = "loop"
    /\ UNCHANGED << completed, policy, input, i, serviceTime, waitingTime,
                    lastCompletion, currentTime, totalWait, totalTurnaround,
                    schedule, gantt, h, queue, decision, dispatches, accounted,
                    metrics >>

\* a pass that pops a process and runs it for one unit
SJFUnitRun ==
    /\ policy = "SJFUnit" /\ pc = "loop" /\ SJFUnitLoopCond
    /\ currentTime < MaxUnitClock
    /\ LET pushed == SJFUnitPushed IN
       /\ Len(pushed) > 0
       /\ LET popped == IntHeapPopValue(pushed)
              p == [popped EXCEPT !.BurstDuration = popped.BurstDuration - 1]
              now == currentTime + 1
          IN /\ currentTime' = now
             /\ IF p.BurstDuration = 0
                THEN /\ completed' = completed + 1
                     /\ totalTurnaround' = totalTurnaround + (now - p.ArrivalTime)
                     /\ totalWait' = totalWait + (now - p.ArrivalTime - p.BurstDuration)
                     /\ h' = IntHeapPopRest(pushed)
                ELSE /\ h' = IntHeapPush(IntHeapPopRest(pushed), p)
                     /\ UNCHANGED << completed, totalTurnaround, totalWait >>
    /\ UNCHANGED << policy, pc, input, backing, processes, i, serviceTime,
                    waitingTime, lastCompletion, schedule, gantt, queue, decision,
                    dispatches, accounted, metrics >>

\* a pass that finds the heap empty: currentTime++
SJFUnitIdle ==
    /\ policy = "SJFUnit" /\ pc = "loop" /\ SJFUnitLoopCond
    /\ currentTime < MaxUnitClock
    /\ Len(SJFUnitPushed) = 0
    /\ currentTime' = currentTime + 1
    /\ UNCHANGED << completed, policy, pc, input, backing, processes, i, serviceTime,
                    waitingTime, lastCompletion, totalWait, totalTurnaround,
                    schedule, gantt, h, queue, decision, dispatches, accounted,
                    metrics >>

SJFUnitLoopExit ==
    /\ policy = "SJFUnit" /\ pc = "loop" /\ ~SJFUnitLoopCond
    /\ pc' = "averages"
    /\ UNCHANGED << completed, policy, input, backing, processes, i, serviceTime,
                    waitingTime, lastCompletion, currentTime, totalWait,
                    totalTurnaround, schedule, gantt, h, queue, decision,
                    dispatches, accounted, metrics >>

\* avgTurnaround, avgWait, throughput
SJFUnitAverages ==
    /\ policy = "SJFUnit" /\ pc = "averages"
    /\ metrics' = [waitNum |-> totalWait, waitDen |-> Len(processes),
                   turnNum |-> totalTurnaround, turnDen |-> Len(processes),
                   thrNum |-> Len(processes), thrDen |-> currentTime]
    /\ pc' = "done"
    /\ UNCHANGED << completed, policy, input, backing, processes, i, serviceTime,
                    waitingTime, lastCompletion, currentTime, totalWait,
                    totalTurnaround, schedule, gantt, h, queue, decision,
                    dispatches, accounted >>

Next ==
    \/ FCFSStep \/ FCFSLoopExit \/ FCFSAverages
    \/ SJFDispatch \/ SJFIdle \/ SJFLoopExit \/ SJFAverages
    \/ RRPreempt \/ RRComplete \/ RRIdle \/ RRLoopExit \/ RRAverages
    \/ SJFUnitSort \/ SJFUnitRun \/ SJFUnitIdle \/ SJFUnitLoopExit \/ SJFUnitAverages

Spec == Init /\ [][Next]_vars

\* ---- helpers of the properties ----

Min(a, b) == IF a < b THEN a ELSE b

\* position in the input of the process labelled id, and that process as loaded
PosOf(id) == CHOOSE k \in 1..Len(input) : input[k].ProcessID = id
InputOf(id) == input[PosOf(id)]

\* total duration of the intervals of a sequence attributed to id
RECURSIVE Served(_, _)
Served(slices, id) ==
    IF slices = << >> THEN 0
    ELSE (IF Head(slices).PID = id THEN Head(slices).Stop - Head(slices).Start ELSE 0)
         + Served(Tail(slices), id)

\* ---- C1 ----
\* C1: every row of FCFSSchedule and of the non-preemptive SJFSchedule has
\* turnaround = completion - arrival, waiting = turnaround - input burst, and
\* waiting and turnaround are both >= 0.
C1_RowTimesConsistent ==
    policy \in {"FCFS", "SJF"} =>
        \A k \in 1..Len(schedule) :
            LET r == schedule[k] IN
            /\ r.Turnaround = r.Exit - r.Arrival
            /\ r.Wait = r.Turnaround - InputOf(r.ID).BurstDuration
            /\ r.Wait >= 0
            /\ r.Turnaround >= 0

\* ---- C2 ----
\* C2: each FCFS iteration gives waiting = serviceTime - arrival when the clock
\* is past the arrival, else waiting 0 with the clock moved to the arrival; the
\* slice starts at waiting + arrival, never before the arrival.
C2_Step ==
    (policy = "FCFS" /\ pc = "loop" /\ i < Len(processes) /\ i' = i + 1) =>
        LET p == processes[i + 1]
            r == schedule'[i + 1]
            g == gantt'[i + 1]
        IN /\ serviceTime > p.ArrivalTime => r.Wait = serviceTime - p.ArrivalTime
           /\ serviceTime <= p.ArrivalTime =>
                  r.Wait = 0 /\ serviceTime' = p.ArrivalTime + p.BurstDuration
           /\ g.Start = r.Wait + p.ArrivalTime
           /\ g.Start >= p.ArrivalTime

C2_FCFSWaitRule == [][C2_Step]_vars

\* ---- C3 ----
\* C3: FCFS emits rows and slices in arrival order whatever the input order:
\* a strictly earlier arrival is emitted first, equal arrivals in input order.
C3_FCFSArrivalOrder ==
    policy = "FCFS" =>
        \A a, b \in 1..Len(schedule) :
            a < b =>
                LET pa == InputOf(schedule[a].ID)
                    pb == InputOf(schedule[b].ID)
                IN /\ gantt[a].PID = schedule[a].ID
                   /\ gantt[b].PID = schedule[b].ID
                   /\ pa.ArrivalTime <= pb.ArrivalTime
                   /\ pa.ArrivalTime = pb.ArrivalTime =>
                          PosOf(schedule[a].ID) < PosOf(schedule[b].ID)

\* ---- C4 ----
\* C4: the completion times of the FCFS rows never decrease along the rows.
C4_FCFSCompletionMonotone ==
    policy = "FCFS" =>
        \A a, b \in 1..Len(schedule) :
            a < b => schedule[a].Exit <= schedule[b].Exit

\* ---- C5 ----
\* C5: once a process is fully serviced, the durations of the service intervals
\* attributed to it add up to its input burst, under FCFS, SJF and Round-Robin.
C5_ServiceEqualsBurst ==
    /\ policy \in {"FCFS", "SJF"} =>
           \A k \in 1..Len(schedule) :
               Served(gantt, schedule[k].ID) = InputOf(schedule[k].ID).BurstDuration
    /\ policy = "RR" =>
           \A k \in 1..Len(accounted) :
               Served(dispatches, accounted[k].PID)
                   = InputOf(accounted[k].PID).BurstDuration

\* ---- C6 ----
\* C6: the FCFS and SJF timelines have stop >= start >= 0, starts that never
\* decrease, no overlap, and no slice longer than its process's burst (no idle
\* time inside a slice).
C6_TimelineWellFormed ==
    policy \in {"FCFS", "SJF"} =>
        /\ \A k \in 1..Len(gantt) :
               /\ gantt[k].Stop >= gantt[k].Start
               /\ gantt[k].Start >= 0
               /\ gantt[k].Stop - gantt[k].Start <= InputOf(gantt[k].PID).BurstDuration
        /\ \A k \in 1..(Len(gantt) - 1) :
               /\ gantt[k].Start <= gantt[k + 1].Start
               /\ gantt[k].Stop <= gantt[k + 1].Start

\* ---- C7 ----
\* C7: at every pop of the SJF ready heap no process waiting in the heap has a
\* strictly smaller burst than the process chosen, whatever the priorities.
C7_SJFShortestFirst ==
    (policy = "SJF" /\ decision.made) =>
        \A k \in 1..Len(decision.ready) :
            decision.ready[k].BurstDuration >= decision.chosen.BurstDuration

\* ---- C8 ----
\* C8: every Round-Robin dispatch advances the clock by min(remaining, quantum);
\* more than a quantum left: exactly a quantum is run and the process goes back
\* to the tail; at most a quantum left: it completes and is not re-enqueued.
C8_Step ==
    (policy = "RR" /\ pc = "loop" /\ RRLoopCond /\ Len(RRAdmitted.queue) > 0) =>
        LET q == RRAdmitted.queue
            p == Head(q)
            run == currentTime' - currentTime
        IN /\ run = Min(p.BurstDuration, timeQuantum)
           /\ run <= timeQuantum
           /\ p.BurstDuration > timeQuantum =>
                  /\ run = timeQuantum
                  /\ queue' = Append(Tail(q),
                         [p EXCEPT !.BurstDuration = p.BurstDuration - timeQuantum])
                  /\ accounted' = accounted
           /\ p.BurstDuration <= timeQuantum =>
                  /\ queue' = Tail(q)
                  /\ Len(accounted') = Len(accounted) + 1
                  /\ accounted'[Len(accounted')].PID = p.ProcessID

C8_RRQuantumRule == [][C8_Step]_vars

\* a run that preempted one process and completed another on exactly one quantum
\* and a third on less than a quantum
C8_Witness ==
    /\ policy = "RR"
    /\ \E a, b, c \in 1..Len(dispatches) :
           /\ ~dispatches[a].completes /\ dispatches[a].remaining > timeQuantum
           /\ dispatches[b].completes /\ dispatches[b].remaining = timeQuantum
           /\ dispatches[c].completes /\ dispatches[c].remaining < timeQuantum

\* ---- C9 ----
\* C9: when a process has just been preempted and put back at the tail at clock
\* t, no process that arrived by t is still outside the queue (such a process
\* would have to be ahead of the preempted one).
C9_ArrivalsAheadOfPreempted ==
    (policy = "RR" /\ Len(dispatches) > 0
        /\ ~dispatches[Len(dispatches)].completes
        /\ dispatches[Len(dispatches)].Stop = currentTime) =>
        \A k \in 1..Len(processes) : processes[k].ArrivalTime > currentTime

\* ---- C10 ----
\* C10: the waiting time Round-Robin accounts for a completing process is
\* completion - arrival - input burst.
C10_RRWaitUsesOriginalBurst ==
    policy = "RR" =>
        \A k \in 1..Len(accounted) :
            accounted[k].Wait = accounted[k].Exit - accounted[k].Arrival
                                  - InputOf(accounted[k].PID).BurstDuration

\* ---- helpers of the later properties ----

RECURSIVE SumWait(_)
SumWait(rows) == IF rows = << >> THEN 0 ELSE Head(rows).Wait + SumWait(Tail(rows))

RECURSIVE SumTurnaround(_)
SumTurnaround(rows) ==
    IF rows = << >> THEN 0 ELSE Head(rows).Turnaround + SumTurnaround(Tail(rows))

\* the completion records of a run: table rows, or Round-Robin's accountings
Completions == IF policy = "RR" THEN accounted ELSE schedule

\* the label of the k-th completion record
CompletionID(k) == IF policy = "RR" THEN accounted[k].PID ELSE schedule[k].ID

LastExit == CHOOSE e \in {Completions[k].Exit : k \in 1..Len(Completions)} :
                \A k \in 1..Len(Completions) : Completions[k].Exit <= e

RECURSIVE SumBurst(_)
SumBurst(procs) ==
    IF procs = << >> THEN 0 ELSE Head(procs).BurstDuration + SumBurst(Tail(procs))

LastArrival == CHOOSE a \in {input[j].ArrivalTime : j \in 1..Len(input)} :
                   \A j \in 1..Len(input) : input[j].ArrivalTime <= a

\* ---- C11 ----
\* C11: when FCFSSchedule, SJFSchedule or RRSchedule has returned, the caller's
\* slice holds the same Process records in the same order as before the call.
C11_CallerSliceUnchanged ==
    (policy \in {"FCFS", "SJF", "RR"} /\ pc = "done") => backing = input

\* ---- C12 ----
\* every input process has exactly one completion record
C12_EachCompletedOnce ==
    /\ Len(Completions) = Len(input)
    /\ \A j \in 1..Len(input) :
           \E k \in 1..Len(Completions) : CompletionID(k) = input[j].ProcessID

\* the service still owed to the processes waiting in the slice, the heap and
\* the queue, plus the time left until the last arrival: a natural number
C12_Owed ==
    SumBurst(processes) + SumBurst(h) + SumBurst(queue)
      + (IF Len(input) > 0 /\ LastArrival > currentTime
         THEN LastArrival - currentTime ELSE 0)

\* every iteration of the loop of SJF or RR lowers what is owed, which never
\* drops below 0
C12_Step ==
    (policy \in {"SJF", "RR"} /\ pc = "loop" /\ pc' = "loop") =>
        /\ C12_Owed' < C12_Owed
        /\ C12_Owed' >= 0

\* C12: the loops of the non-preemptive SJFSchedule and of RRSchedule terminate
\* (each iteration lowers a natural-number measure; the loop body has no
\* statement that can block), and past the loop every input process has been
\* completed exactly once.
C12_SJFAndRRTerminate ==
    /\ []((policy \in {"SJF", "RR"} /\ pc \in {"averages", "done"})
             => C12_EachCompletedOnce)
    /\ [][C12_Step]_vars

\* a finished SJF run of several processes that had to idle before its first slice
C12_Witness ==
    /\ policy = "SJF" /\ pc = "done"
    /\ Len(schedule) >= 2
    /\ gantt[1].Start > 0
    /\ C12_EachCompletedOnce

\* ---- C13 ----
\* C13: on an empty process set every policy ends with no rows, no slices and
\* no average or throughput evaluated over a zero denominator.
C13_EmptySetGuarded ==
    (policy \in {"FCFS", "SJF", "RR"} /\ pc = "done" /\ Len(input) = 0) =>
        /\ schedule = << >>
        /\ gantt = << >>
        /\ metrics.waitDen # 0
        /\ metrics.turnDen # 0
        /\ metrics.thrDen # 0

\* ---- C14 ----
\* C14: when the averages are computed, the waiting total is the sum of the
\* per-process waiting times, the turnaround total the sum of the per-process
\* turnaround times, and both are divided by the number of completed processes.
C14_AveragesOverCompleted ==
    (policy \in {"FCFS", "SJF", "RR"} /\ pc = "done") =>
        /\ metrics.waitNum = SumWait(Completions)
        /\ metrics.turnNum = SumTurnaround(Completions)
        /\ metrics.waitDen = Len(Completions)
        /\ metrics.turnDen = Len(Completions)

\* ---- C15 ----
\* C15: the throughput is the number of completed processes over the largest
\* completion time of the run.
C15_ThroughputOverElapsed ==
    (policy \in {"FCFS", "SJF", "RR"} /\ pc = "done" /\ Len(Completions) > 0) =>
        /\ metrics.thrNum = Len(Completions)
        /\ metrics.thrDen = LastExit

\* ---- C16 ----
\* a comes before b in the Priority policy's order: lower priority value, then
\* smaller burst, then earlier arrival
C16_Before(a, b) ==
    \/ a.Priority < b.Priority
    \/ a.Priority = b.Priority /\ a.BurstDuration < b.BurstDuration
    \/ a.Priority = b.Priority /\ a.BurstDuration = b.BurstDuration
          /\ a.ArrivalTime < b.ArrivalTime

\* the input positions of the processes that have arrived by the start of the
\* k-th slice and were not run before it
C16_Candidates(k) ==
    { j \in 1..Len(input) :
        /\ input[j].ArrivalTime <= gantt[k].Start
        /\ \A m \in 1..(k - 1) : schedule[m].ID # input[j].ProcessID }

C17_RowBurstIsInputBurst ==
    policy = "SJF" =>
        \A k \in 1..Len(schedule) :
            schedule[k].Burst = InputOf(schedule[k].ID).BurstDuration

\* ---- C18 ----
\* the input positions of the processes without a slice before the k-th
C18_NotYetRun(k) ==
    { j \in 1..Len(input) : \A m \in 1..(k - 1) : gantt[m].PID # input[j].ProcessID }

\* C18: the non-preemptive SJFSchedule gives each process one slice
\* [start, start + burst) with start >= arrival, and a slice that starts after
\* the previous stop starts at the earliest arrival among the processes not yet
\* run.
C18_OneSliceNoNeedlessIdle ==
    policy = "SJF" =>
        /\ \A k \in 1..Len(gantt) :
               LET g == gantt[k]
                   p == InputOf(g.PID)
                   prevStop == IF k = 1 THEN 0 ELSE gantt[k - 1].Stop
               IN /\ g.Stop = g.Start + p.BurstDuration
                  /\ g.Start >= p.ArrivalTime
                  /\ g.Start >= prevStop
                  /\ g.Start > prevStop =>
                         /\ \A j \in C18_NotYetRun(k) : input[j].ArrivalTime >= g.Start
                         /\ \E j \in C18_NotYetRun(k) : input[j].ArrivalTime = g.Start
        /\ \A a, b \in 1..Len(gantt) : a # b => gantt[a].PID # gantt[b].PID
        /\ pc = "done" =>
               \A j \in 1..Len(input) :
                   \E k \in 1..Len(gantt) : gantt[k].PID = input[j].ProcessID

\* a finished run with an idle gap between two slices
C18_Witness ==
    /\ policy = "SJF" /\ pc = "done"
    /\ \E k \in 2..Len(gantt) : gantt[k].Start > gantt[k - 1].Stop

\* ---- C19 ----
\* C19: on a non-empty set the unit-stepping SJFSchedule never holds a process
\* twice in its heap, never counts more completions than processes, keeps its
\* clock within the last arrival plus the sum of the bursts, and leaves its loop
\* with the heap empty and every process completed.
C19_UnitSJFBounded ==
    (policy = "SJFUnit" /\ Len(input) > 0) =>
        /\ \A a, b \in 1..Len(h) : a # b => h[a].ProcessID # h[b].ProcessID
        /\ completed <= Len(processes)
        /\ currentTime <= LastArrival + SumBurst(input)
        /\ pc \in {"averages", "done"} => h = << >> /\ completed = Len(processes)
====
